---- MODULE Spec2Model ----
(***************************************************************************)
(* Model of the client-tracking core of the relayer:                       *)
(*   - modules/src/ics24_host/identifier.rs : the four identifier newtypes *)
(*   - relayer/relay/src/chain_event_client.rs : ClientBuilderObject       *)
(*   - relayer/cli/src/commands/query/client.rs : the two query commands   *)
(* Three specifications share the variables: SpecId (identifiers),         *)
(* SpecEv (event correlation) and SpecCli (the CLI commands).              *)
(***************************************************************************)
EXTENDS Integers, Sequences, FiniteSets

VARIABLES
    idInput,   \* the raw text handed to the last constructor (parse / deserialize)
    idVal,     \* Option<identifier>: the identifier value the caller holds
    idClone,   \* Option<identifier>: a clone of idVal
    idVia,     \* which constructor produced idVal: "none", "from_str", "deserialize"
    idOp,      \* last identifier operation executed
    idOut,     \* value returned by the last identifier operation
    ev,        \* Option<IBCEvent>: the event handed to ClientBuilderObject::new
    obj,       \* Option<Result<ClientBuilderObject, BoxError>>
    evOp,      \* last BuilderObject method called
    evOut,     \* Option<value> returned by that method
    evPc,      \* "run" or "panicked"
    config,    \* app_config(): the sequence of configured chains
    cmd,       \* the command struct filled in by the argument parser
    pc,        \* position inside run(): start, validated, chain, done, panicked
    vres,      \* Option<Result<(ChainConfig, Options), String>> of validate_options
    chain,     \* Option<TendermintChain>
    calls,     \* external calls issued by run(), in order
    printed    \* status lines printed by run(), in order

idVars  == <<idInput, idVal, idClone, idVia, idOp, idOut>>
evVars  == <<ev, obj, evOp, evOut, evPc>>
cliVars == <<config, cmd, pc, vres, chain, calls, printed>>
vars    == <<idInput, idVal, idClone, idVia, idOp, idOut,
             ev, obj, evOp, evOut, evPc,
             config, cmd, pc, vres, chain, calls, printed>>

----
\* Bounds of the model
MaxLen    == 4      \* longest raw text handed to a constructor
MaxHeight == 2      \* heights range over 0..MaxHeight
MaxChains == 2      \* longest chain list of a configuration

----
\* Option and Result values
None     == [tag |-> "None"]
Some(x)  == [tag |-> "Some", v |-> x]
Ok(x)    == [tag |-> "Ok", v |-> x]
Err(e)   == [tag |-> "Err", e |-> e]
IsSome(o) == o.tag = "Some"
IsOk(r)   == r.tag = "Ok"
IsErr(r)  == r.tag = "Err"

SeqsUpTo(S, n) == UNION {[1..k -> S] : k \in 0..n}

----
\* ---------------- Identifier model (ics24_host) ----------------

\* Characters of raw texts: one allowed by every namespace, one allowed by none.
Chars == {"a", "/"}
Texts == SeqsUpTo(Chars, MaxLen)

Namespaces == {"ClientId", "ConnectionId", "PortId", "ChannelId"}

\* Namespace grammar: allowed characters and length bounds.
Grammar ==
    [ClientId     |-> [min |-> 2, max |-> 3, allowed |-> {"a"}],
     ConnectionId |-> [min |-> 3, max |-> 3, allowed |-> {"a"}],
     PortId       |-> [min |-> 1, max |-> 3, allowed |-> {"a"}],
     ChannelId    |-> [min |-> 3, max |-> 3, allowed |-> {"a"}]]

\* validate_identifier: Ok(()) or the ValidationError kind
validate_identifier(ns, s) ==
    IF Len(s) = 0 THEN Err([kind |-> "Empty", ns |-> ns, id |-> s])
    ELSE IF Len(s) < Grammar[ns].min \/ Len(s) > Grammar[ns].max
         THEN Err([kind |-> "InvalidLength", ns |-> ns, id |-> s])
    ELSE IF \E i \in 1..Len(s) : s[i] \notin Grammar[ns].allowed
         THEN Err([kind |-> "InvalidCharacter", ns |-> ns, id |-> s])
    ELSE Ok("unit")

validate_client_identifier(s)     == validate_identifier("ClientId", s)
validate_connection_identifier(s) == validate_identifier("ConnectionId", s)
validate_port_identifier(s)       == validate_identifier("PortId", s)
validate_channel_identifier(s)    == validate_identifier("ChannelId", s)

validate(ns, s) ==
    CASE ns = "ClientId"     -> validate_client_identifier(s)
      [] ns = "ConnectionId" -> validate_connection_identifier(s)
      [] ns = "PortId"       -> validate_port_identifier(s)
      [] ns = "ChannelId"    -> validate_channel_identifier(s)

\* s.to_string(): a fresh String holding the characters of s
to_owned(s) == [i \in 1..Len(s) |-> s[i]]

\* The newtype constructor Self(String)
Ident(ns, str) == [ns |-> ns, s |-> str]

\* A from_str that drops the last character of the text it stores
from_str_truncating(ns, s) ==
    LET r == validate(ns, s) IN
    IF IsOk(r) THEN Ok(Ident(ns, SubSeq(s, 1, Len(s) - 1))) ELSE r

\* FromStr::from_str: validate_*_identifier(s).map(|_| Self(s.to_string()))
from_str(ns, s) ==
    LET r == validate(ns, s) IN
    IF IsOk(r) THEN Ok(Ident(ns, to_owned(s))) ELSE r

\* derive(Deserialize) on a newtype struct: wraps whatever string it is given
deserialize(ns, s) == Ok(Ident(ns, to_owned(s)))

\* derive(Clone)
clone(id) == Ident(id.ns, to_owned(id.s))

as_str(id) == id.s

Utf8 == [c \in Chars |-> IF c = "a" THEN 97 ELSE 47]
as_bytes(id) == [i \in 1..Len(id.s) |-> Utf8[id.s[i]]]

\* Display::fmt: write!(f, "{}", self.0)
fmt(id) == to_owned(id.s)

InitIdVars ==
    /\ idInput = <<>>
    /\ idVal = None
    /\ idClone = None
    /\ idVia = "none"
    /\ idOp = "none"
    /\ idOut = None

FromStr ==
    \E ns \in Namespaces, s \in Texts :
        LET r == from_str(ns, s) IN
        /\ idInput' = s
        /\ idVal' = IF IsOk(r) THEN Some(r.v) ELSE None
        /\ idVia' = IF IsOk(r) THEN "from_str" ELSE "none"
        /\ idClone' = None
        /\ idOp' = "from_str"
        /\ idOut' = Some(r)
        /\ UNCHANGED <<evVars, cliVars>>

Deserialize ==
    \E ns \in Namespaces, s \in Texts :
        LET r == deserialize(ns, s) IN
        /\ idInput' = s
        /\ idVal' = Some(r.v)
        /\ idVia' = "deserialize"
        /\ idClone' = None
        /\ idOp' = "deserialize"
        /\ idOut' = Some(r)
        /\ UNCHANGED <<evVars, cliVars>>

Clone ==
    /\ IsSome(idVal)
    /\ idClone' = Some(clone(idVal.v))
    /\ idOp' = "clone"
    /\ idOut' = Some(clone(idVal.v))
    /\ UNCHANGED <<idInput, idVal, idVia>>
    /\ UNCHANGED <<evVars, cliVars>>

AsStr ==
    /\ IsSome(idVal)
    /\ idOp' = "as_str"
    /\ idOut' = Some(as_str(idVal.v))
    /\ UNCHANGED <<idInput, idVal, idClone, idVia>>
    /\ UNCHANGED <<evVars, cliVars>>

AsBytes ==
    /\ IsSome(idVal)
    /\ idOp' = "as_bytes"
    /\ idOut' = Some(as_bytes(idVal.v))
    /\ UNCHANGED <<idInput, idVal, idClone, idVia>>
    /\ UNCHANGED <<evVars, cliVars>>

Display ==
    /\ IsSome(idVal)
    /\ idOp' = "to_string"
    /\ idOut' = Some(fmt(idVal.v))
    /\ UNCHANGED <<idInput, idVal, idClone, idVia>>
    /\ UNCHANGED <<evVars, cliVars>>

NextId == FromStr \/ Deserialize \/ Clone \/ AsStr \/ AsBytes \/ Display

----
\* ---------------- Builder-object correlator (chain_event_client.rs) ----------------

Heights == 0..MaxHeight

\* ClientId values carried by events
EventClientIds == {Ident("ClientId", <<"a", "a">>), Ident("ClientId", <<"a", "a", "a">>)}
ClientTypes == {"Tendermint"}

ClientEventTypes == {"CreateClient", "UpdateClient"}
OtherEventTypes  == {"NewBlock", "ClientMisbehavior", "OpenInitConnection", "SendPacketChannel"}

\* The IBCEvent enum: the two client variants carry a payload with the four
\* fields; the other variants are opaque here.
IBCEvent ==
    [type : ClientEventTypes, height : Heights, client_id : EventClientIds,
     client_type : ClientTypes, client_height : Heights]
    \cup [type : OtherEventTypes, height : Heights]

\* A constructor that mixes up the two heights
new_swapped(e) ==
    IF e.type \in ClientEventTypes
    THEN Ok([height |-> e.client_height, client_id |-> clone(e.client_id),
             client_type |-> e.client_type, client_height |-> e.height])
    ELSE Err("not implemented")

\* ClientBuilderObject::new
new(e) ==
    CASE e.type = "CreateClient" ->
            Ok([height |-> e.height, client_id |-> clone(e.client_id),
                client_type |-> e.client_type, client_height |-> e.client_height])
      [] e.type = "UpdateClient" ->
            Ok([height |-> e.height, client_id |-> clone(e.client_id),
                client_type |-> e.client_type, client_height |-> e.client_height])
      [] OTHER -> Err("not implemented")

\* The outcome of a method call: a returned value or a panic
Return(x) == [tag |-> "Return", v |-> x]
Panic(m)  == [tag |-> "Panic", msg |-> m]

\* A flipped that returns None instead of aborting
flipped_returning_none(o) == Return(None)

\* BuilderObject::flipped: unimplemented!()
flipped(o) == Panic("not implemented")

\* BuilderObject::client_id
client_id(o) == Return(clone(o.client_id))

\* BuilderObject::client_height
client_height(o) == Return(o.client_height)

\* BuilderObject::counterparty_client_id: unimplemented!()
counterparty_client_id(o) == Panic("not implemented")

InitEvVars ==
    /\ ev = None
    /\ obj = None
    /\ evOp = "none"
    /\ evOut = None
    /\ evPc = "run"

New ==
    /\ evPc = "run"
    /\ \E e \in IBCEvent :
        /\ ev' = Some(e)
        /\ obj' = Some(new(e))
    /\ evOp' = "new"
    /\ evOut' = None
    /\ UNCHANGED evPc
    /\ UNCHANGED <<idVars, cliVars>>

\* A method call on a constructed object: the process goes on after a
\* return and is aborted by a panic.
Call(name, outcome) ==
    /\ evOp' = name
    /\ evOut' = Some(outcome)
    /\ evPc' = IF outcome.tag = "Panic" THEN "panicked" ELSE "run"
    /\ UNCHANGED <<ev, obj>>
    /\ UNCHANGED <<idVars, cliVars>>

HasObject == evPc = "run" /\ IsSome(obj) /\ IsOk(obj.v)

CallFlipped ==
    /\ HasObject
    /\ Call("flipped", flipped(obj.v.v))

CallClientId ==
    /\ HasObject
    /\ Call("client_id", client_id(obj.v.v))

CallClientHeight ==
    /\ HasObject
    /\ Call("client_height", client_height(obj.v.v))

CallCounterpartyClientId ==
    /\ HasObject
    /\ Call("counterparty_client_id", counterparty_client_id(obj.v.v))

NextEv == New \/ CallFlipped \/ CallClientId \/ CallClientHeight \/ CallCounterpartyClientId

----
\* ---------------- CLI query commands (commands/query/client.rs) ----------------

ConfiguredChainIds == {"ibc0", "ibc1"}
ChainIds == ConfiguredChainIds \cup {"notibc0oribc1"}

\* Chain entries a configuration file can hold (two entries share the id ibc0)
ChainConfigs ==
    {[id |-> "ibc0", rpc_addr |-> "localhost:26657"],
     [id |-> "ibc1", rpc_addr |-> "localhost:26557"],
     [id |-> "ibc0", rpc_addr |-> "localhost:26757"]}

Configs == SeqsUpTo(ChainConfigs, MaxChains)

OptionOf(S) == {None} \cup {Some(x) : x \in S}

QueryClientStateCmd ==
    [kind : {"state"}, chain_id : OptionOf(ChainIds), client_id : OptionOf(Texts),
     height : OptionOf(Heights), proof : OptionOf(BOOLEAN)]

QueryClientConsensusCmd ==
    [kind : {"consensus"}, chain_id : OptionOf(ChainIds), client_id : OptionOf(Texts),
     consensus_height : OptionOf(Heights),
     height : OptionOf(Heights), proof : OptionOf(BOOLEAN)]

\* Display of a ValidationError: the message of its kind
ValidationError_to_string(e) ==
    CASE e.kind = "Empty"            -> "identifier cannot be empty"
      [] e.kind = "InvalidLength"    -> "identifier has invalid length"
      [] e.kind = "InvalidCharacter" -> "identifier contains invalid characters"

\* config.chains.iter().find(|c| c.id == chain_id)
find(chains, id) ==
    LET I == {i \in 1..Len(chains) : chains[i].id = id} IN
    IF I = {} THEN None
    ELSE Some(chains[CHOOSE i \in I : \A j \in I : i <= j])

\* A validate_common_options that parses the client id before it looks up the chain
validate_common_options_client_first(chain_id, client_id_opt, cfg) ==
    IF client_id_opt = None THEN Err("missing client identifier")
    ELSE LET parsed == from_str("ClientId", client_id_opt.v) IN
         IF IsErr(parsed) THEN Err(ValidationError_to_string(parsed.e))
         ELSE IF chain_id = None THEN Err("missing chain parameter")
         ELSE LET chain_config == find(cfg, chain_id.v) IN
              IF chain_config = None THEN Err("missing chain in configuration")
              ELSE Ok([chain_config |-> chain_config.v, client_id |-> parsed.v])

\* A validate_common_options that wraps the client id without parsing it
validate_common_options_unparsed(chain_id, client_id_opt, cfg) ==
    IF chain_id = None THEN Err("missing chain parameter")
    ELSE LET chain_config == find(cfg, chain_id.v) IN
         IF chain_config = None THEN Err("missing chain in configuration")
         ELSE IF client_id_opt = None THEN Err("missing client identifier")
         ELSE Ok([chain_config |-> chain_config.v,
                  client_id |-> Ident("ClientId", client_id_opt.v)])

\* validate_common_options
validate_common_options(chain_id, client_id_opt, cfg) ==
    IF chain_id = None THEN Err("missing chain parameter")
    ELSE LET chain_config == find(cfg, chain_id.v) IN
         IF chain_config = None THEN Err("missing chain in configuration")
         ELSE IF client_id_opt = None THEN Err("missing client identifier")
         ELSE LET parsed == from_str("ClientId", client_id_opt.v) IN
              IF IsErr(parsed) THEN Err(ValidationError_to_string(parsed.e))
              ELSE Ok([chain_config |-> chain_config.v, client_id |-> parsed.v])

\* A validate_options whose proof flag defaults to false
QueryClientStateCmd_validate_options_proof_off(c, cfg) ==
    LET common == validate_common_options(c.chain_id, c.client_id, cfg) IN
    IF IsErr(common) THEN common
    ELSE Ok([chain_config |-> common.v.chain_config,
             opts |-> [client_id |-> common.v.client_id,
                       height |-> IF IsSome(c.height) THEN c.height.v ELSE 0,
                       proof |-> IF IsSome(c.proof) THEN c.proof.v ELSE FALSE]])

\* QueryClientStateCmd::validate_options
QueryClientStateCmd_validate_options(c, cfg) ==
    LET common == validate_common_options(c.chain_id, c.client_id, cfg) IN
    IF IsErr(common) THEN common
    ELSE Ok([chain_config |-> common.v.chain_config,
             opts |-> [client_id |-> common.v.client_id,
                       height |-> IF IsSome(c.height) THEN c.height.v ELSE 0,
                       proof |-> IF IsSome(c.proof) THEN c.proof.v ELSE TRUE]])

\* A validate_options that defaults a missing consensus height to 0
QueryClientConsensusCmd_validate_options_defaulting(c, cfg) ==
    LET common == validate_common_options(c.chain_id, c.client_id, cfg) IN
    IF IsErr(common) THEN common
    ELSE Ok([chain_config |-> common.v.chain_config,
             opts |-> [client_id |-> common.v.client_id,
                       consensus_height |->
                           IF IsSome(c.consensus_height) THEN c.consensus_height.v ELSE 0,
                       height |-> IF IsSome(c.height) THEN c.height.v ELSE 0,
                       proof |-> IF IsSome(c.proof) THEN c.proof.v ELSE TRUE]])

\* QueryClientConsensusCmd::validate_options
QueryClientConsensusCmd_validate_options(c, cfg) ==
    LET common == validate_common_options(c.chain_id, c.client_id, cfg) IN
    IF IsErr(common) THEN common
    ELSE IF IsSome(c.consensus_height)
         THEN Ok([chain_config |-> common.v.chain_config,
                  opts |-> [client_id |-> common.v.client_id,
                            consensus_height |-> c.consensus_height.v,
                            height |-> IF IsSome(c.height) THEN c.height.v ELSE 0,
                            proof |-> IF IsSome(c.proof) THEN c.proof.v ELSE TRUE]])
         ELSE Err("missing client consensus height")

\* Status lines
status_err(prefix, arg)  == [level |-> "status_err", prefix |-> prefix, arg |-> arg]
status_info(prefix, arg) == [level |-> "status_info", prefix |-> prefix, arg |-> arg]

\* Outcomes of the external collaborators
FromConfigOutcomes == {"Ok", "Err"}
ClientStates    == {"client_state_0"}
ConsensusStates == {"consensus_state_0"}
QueryErrors     == {"rpc error"}

InitCliVars ==
    /\ config = <<>>
    /\ cmd = None
    /\ pc = "idle"
    /\ vres = None
    /\ chain = None
    /\ calls = <<>>
    /\ printed = <<>>

\* A run() that goes on after reporting invalid options
run_validate_no_return(r) ==
    /\ vres' = Some(r)
    /\ printed' = Append(printed, IF IsErr(r) THEN status_err("invalid options: ", r.e)
                                  ELSE status_info("Options", r.v.opts))
    /\ pc' = "validated"
    /\ UNCHANGED <<config, cmd, chain, calls>>
    /\ UNCHANGED <<idVars, evVars>>

\* run(), first part: validate_options, report and return on Err
run_validate(r) ==
    /\ vres' = Some(r)
    /\ IF IsErr(r)
       THEN /\ printed' = Append(printed, status_err("invalid options: ", r.e))
            /\ pc' = "done"
       ELSE /\ printed' = Append(printed, status_info("Options", r.v.opts))
            /\ pc' = "validated"
    /\ UNCHANGED <<config, cmd, chain, calls>>
    /\ UNCHANGED <<idVars, evVars>>

\* run(), second part: TendermintChain::from_config(chain_config).unwrap()
run_from_config ==
    LET chain_config == IF IsOk(vres.v) THEN Some(vres.v.v.chain_config) ELSE None IN
    /\ calls' = Append(calls, [fn |-> "from_config", arg |-> chain_config])
    /\ \E outcome \in FromConfigOutcomes :
        IF outcome = "Ok"
        THEN /\ chain' = Some([config |-> chain_config])
             /\ pc' = "chain"
        ELSE /\ chain' = None
             /\ pc' = "panicked"
    /\ UNCHANGED <<config, cmd, vres, printed>>
    /\ UNCHANGED <<idVars, evVars>>

\* run(), third part: block_on(query), then print the result or the error
run_query(fn, args, results, ok_prefix, err_prefix) ==
    /\ calls' = Append(calls, [fn |-> fn, arg |-> args])
    /\ \E res \in {Ok(x) : x \in results} \cup {Err(e) : e \in QueryErrors} :
        printed' = Append(printed, IF IsOk(res) THEN status_info(ok_prefix, res.v)
                                   ELSE status_info(err_prefix, res.e))
    /\ pc' = "done"
    /\ UNCHANGED <<config, cmd, vres, chain>>
    /\ UNCHANGED <<idVars, evVars>>

StateRunValidate ==
    /\ pc = "start" /\ cmd.kind = "state"
    /\ run_validate(QueryClientStateCmd_validate_options(cmd, config))

StateRunFromConfig ==
    /\ pc = "validated" /\ cmd.kind = "state"
    /\ run_from_config

StateRunQuery ==
    /\ pc = "chain" /\ cmd.kind = "state"
    /\ LET opts == vres.v.v.opts IN
       run_query("query_client_full_state",
                 [chain |-> chain.v, height |-> opts.height,
                  client_id |-> clone(opts.client_id), proof |-> opts.proof],
                 ClientStates,
                 "client state query result: ", "client state query error: ")

ConsensusRunValidate ==
    /\ pc = "start" /\ cmd.kind = "consensus"
    /\ run_validate(QueryClientConsensusCmd_validate_options(cmd, config))

ConsensusRunFromConfig ==
    /\ pc = "validated" /\ cmd.kind = "consensus"
    /\ run_from_config

ConsensusRunQuery ==
    /\ pc = "chain" /\ cmd.kind = "consensus"
    /\ LET opts == vres.v.v.opts IN
       run_query("query_client_consensus_state",
                 [chain |-> chain.v, height |-> opts.height,
                  client_id |-> opts.client_id,
                  consensus_height |-> opts.consensus_height, proof |-> opts.proof],
                 ConsensusStates,
                 "client consensus state query result: ",
                 "client consensus state query error: ")

NextCli ==
    \/ StateRunValidate \/ StateRunFromConfig \/ StateRunQuery
    \/ ConsensusRunValidate \/ ConsensusRunFromConfig \/ ConsensusRunQuery

----
\* ---------------- Specifications ----------------

InitId == InitIdVars /\ InitEvVars /\ InitCliVars
SpecId == InitId /\ [][NextId]_vars

InitEv == InitIdVars /\ InitEvVars /\ InitCliVars
SpecEv == InitEv /\ [][NextEv]_vars

InitCli ==
    /\ InitIdVars /\ InitEvVars
    /\ config \in Configs
    /\ cmd \in QueryClientStateCmd \cup QueryClientConsensusCmd
    /\ pc = "start"
    /\ vres = None
    /\ chain = None
    /\ calls = <<>>
    /\ printed = <<>>
SpecCli == InitCli /\ [][NextCli]_vars

----
\* ---------------- Properties ----------------

\* Shorthands over the command under run
ChainConfigured ==
    /\ IsSome(cmd.chain_id)
    /\ \E i \in 1..Len(config) : config[i].id = cmd.chain_id.v
ClientIdParses ==
    /\ IsSome(cmd.client_id)
    /\ IsOk(validate_client_identifier(cmd.client_id.v))
Validated == IsSome(vres)
ValidationMessages ==
    {"identifier cannot be empty", "identifier has invalid length",
     "identifier contains invalid characters"}

\* C1: ClientBuilderObject::new returns Ok for every CreateClient and
\* UpdateClient event, with height, client_id, client_type and client_height
\* equal to the event's fields, so that client_id() and client_height()
\* return the event's client_id and client_height; for every other variant
\* it returns an error and no object.
C1_FromEventCopiesFields ==
    IsSome(ev) =>
        LET e == ev.v
            r == obj.v
        IN  IF e.type \in {"CreateClient", "UpdateClient"}
            THEN /\ IsOk(r)
                 /\ r.v.height = e.height
                 /\ r.v.client_id = e.client_id
                 /\ r.v.client_type = e.client_type
                 /\ r.v.client_height = e.client_height
                 /\ evOp = "client_id" => evOut = Some(Return(e.client_id))
                 /\ evOp = "client_height" => evOut = Some(Return(e.client_height))
            ELSE /\ IsErr(r)
                 /\ evOp = "new"

C1_Witness ==
    /\ IsSome(ev)
    /\ ev.v.type = "UpdateClient"
    /\ ev.v.height # ev.v.client_height
    /\ evOp = "client_height"
    /\ evOut = Some(Return(ev.v.client_height))

\* C2: every identifier value that exists (obtained by from_str, clone or
\* deserialize) wraps a string that its namespace's validation accepts.
C2_EveryIdentifierValid ==
    \A o \in {idVal, idClone} :
        IsSome(o) => IsOk(validate(o.v.ns, o.v.s))

\* C3: in both commands a chain construction or a query call happens only
\* after validate_options returned Ok; when chain_id names no configured
\* chain or client_id does not parse, the run ends after reporting the
\* error, with no chain handle and no call.
C3_NoCallBeforeValidOptions ==
    /\ (calls # <<>> \/ IsSome(chain)) => (Validated /\ IsOk(vres.v))
    /\ (pc # "start" /\ (~ChainConfigured \/ ~ClientIdParses)) =>
          /\ pc = "done"
          /\ IsErr(vres.v)
          /\ calls = <<>>
          /\ chain = None
          /\ printed = <<status_err("invalid options: ", vres.v.e)>>

C3_Witness ==
    /\ pc = "done"
    /\ IsSome(cmd.chain_id) /\ ~ChainConfigured
    /\ ClientIdParses
    /\ calls = <<>>
    /\ Len(printed) = 1

\* C4: for the consensus query, when consensus_height is absent and the
\* other arguments are valid, validation fails with the missing consensus
\* height error and the run makes no chain call.
C4_MissingConsensusHeightFailsFast ==
    (/\ cmd.kind = "consensus"
     /\ cmd.consensus_height = None
     /\ ChainConfigured /\ ClientIdParses
     /\ pc # "start") =>
        /\ vres = Some(Err("missing client consensus height"))
        /\ pc = "done"
        /\ calls = <<>>
        /\ chain = None

C4_Witness ==
    /\ cmd.kind = "consensus"
    /\ cmd.consensus_height = None
    /\ ChainConfigured /\ ClientIdParses
    /\ pc = "done"
    /\ vres = Some(Err("missing client consensus height"))

\* C5 (as stated): when the client id fails the client grammar, validation
\* fails with the identifier ValidationError whatever the chain id is
\* (absent, unconfigured or configured).
C5_ValidationErrorWhateverTheChain ==
    (Validated /\ IsSome(cmd.client_id) /\ ~ClientIdParses) =>
        /\ IsErr(vres.v)
        /\ vres.v.e \in ValidationMessages

\* C5 (amended): when the client id fails the client grammar, validation
\* always fails; the error is the identifier ValidationError when chain_id
\* names a configured chain, "missing chain parameter" when chain_id is
\* absent and "missing chain in configuration" when it names no configured
\* chain.
C5_InvalidClientIdAlwaysFails ==
    (Validated /\ IsSome(cmd.client_id) /\ ~ClientIdParses) =>
        /\ IsErr(vres.v)
        /\ ChainConfigured =>
              vres.v.e = ValidationError_to_string(
                             validate_client_identifier(cmd.client_id.v).e)
        /\ cmd.chain_id = None => vres.v.e = "missing chain parameter"
        /\ (IsSome(cmd.chain_id) /\ ~ChainConfigured) =>
              vres.v.e = "missing chain in configuration"

C5_Witness ==
    /\ Validated
    /\ IsSome(cmd.client_id) /\ ~ClientIdParses
    /\ ChainConfigured
    /\ IsErr(vres.v)
    /\ vres.v.e = "identifier has invalid length"

\* C6: a run never ends by a panic: whatever validation, chain-handle
\* construction and the query return, the run ends having printed the
\* state or an error.
C6_RunNeverPanics ==
    /\ pc # "panicked"
    /\ pc = "done" => printed # <<>>

\* C7: when the chain id is configured and the client id is valid,
\* validate_options succeeds with height = the supplied height or 0,
\* proof = the supplied flag or true, client_id = the parsed input, and the
\* chain configuration whose id equals chain_id (for the consensus command:
\* when a consensus height is supplied).
C7_ValidOptionsAndDefaults ==
    (/\ Validated
     /\ ChainConfigured /\ ClientIdParses
     /\ cmd.kind = "consensus" => IsSome(cmd.consensus_height)) =>
        /\ IsOk(vres.v)
        /\ vres.v.v.opts.height = (IF cmd.height = None THEN 0 ELSE cmd.height.v)
        /\ vres.v.v.opts.proof = (IF cmd.proof = None THEN TRUE ELSE cmd.proof.v)
        /\ vres.v.v.opts.client_id = Ident("ClientId", cmd.client_id.v)
        /\ vres.v.v.chain_config.id = cmd.chain_id.v
        /\ \E i \in 1..Len(config) : config[i] = vres.v.v.chain_config

C7_Witness ==
    /\ Validated
    /\ cmd.kind = "state"
    /\ cmd.height = None /\ cmd.proof = None
    /\ IsOk(vres.v)
    /\ vres.v.v.opts.height = 0
    /\ vres.v.v.opts.proof = TRUE
    /\ Len(config) = 2

\* C8: validation fails with "missing chain parameter" whenever chain_id is
\* omitted and with "missing chain in configuration" whenever chain_id
\* names no configured chain, whatever the other arguments are.
C8_ChainErrorsFirst ==
    Validated =>
        /\ cmd.chain_id = None => vres.v = Err("missing chain parameter")
        /\ (IsSome(cmd.chain_id) /\ ~ChainConfigured) =>
              vres.v = Err("missing chain in configuration")

C8_Witness ==
    /\ Validated
    /\ IsSome(cmd.chain_id) /\ ~ChainConfigured
    /\ Len(config) = 2
    /\ IsSome(cmd.client_id) /\ ~ClientIdParses
    /\ vres.v = Err("missing chain in configuration")

\* C9: for every namespace and every text that parsing accepts, the parsed
\* value's as_str and to_string return exactly the text and as_bytes
\* returns its bytes.
C9_ParseRoundTrips ==
    idVia = "from_str" =>
        /\ idOp = "from_str" => idOut = Some(Ok(Ident(idVal.v.ns, idInput)))
        /\ idOp = "as_str" => idOut = Some(idInput)
        /\ idOp = "to_string" => idOut = Some(idInput)
        /\ idOp = "as_bytes" =>
              idOut = Some([i \in 1..Len(idInput) |-> Utf8[idInput[i]]])

C9_Witness ==
    /\ idVia = "from_str"
    /\ idOp = "as_str"
    /\ Len(idInput) = 3
    /\ idOut = Some(idInput)

\* C10: on a constructed ClientBuilderObject every call of flipped() or
\* counterparty_client_id() panics instead of returning, while client_id()
\* and client_height() always return.
C10_UnimplementedMethodsPanic ==
    /\ evOp \in {"flipped", "counterparty_client_id"} =>
          /\ evOut.v.tag = "Panic"
          /\ evPc = "panicked"
    /\ evOp \in {"client_id", "client_height"} =>
          /\ evOut.v.tag = "Return"
          /\ evPc = "run"

C10_Witness ==
    /\ evOp = "flipped"
    /\ IsSome(obj) /\ IsOk(obj.v)
    /\ evPc = "panicked"

====
